---- MODULE Spec2Model ----
(***************************************************************************)
(* Model of the /api/transcribe serverless handler (api/transcribe.ts).    *)
(* One request is in flight at a time; the handler is cut at its awaits:   *)
(* the upload parser, the transcription call and the chat-completion call. *)
(* Strings that the handler inspects (transcript, tag candidates) are      *)
(* sequences of one-character strings; a completion is a sequence of JSON  *)
(* tokens that JSONParse parses.                                           *)
(***************************************************************************)
EXTENDS Integers, Sequences, FiniteSets, TLC

\* ---------------------------------------------------------------- bounds
MaxRequests == 2
MaxItems == 2
MaxLong == 12

\* ------------------------------------------------------ program constants
MaxTags == 10
MinBody == 2
MaxBody == 30

\* ------------------------------------------------------------ characters
UpperAlpha ==
  <<"A","B","C","D","E","F","G","H","I","J","K","L","M",
    "N","O","P","Q","R","S","T","U","V","W","X","Y","Z">>

LowerAlpha ==
  <<"a","b","c","d","e","f","g","h","i","j","k","l","m",
    "n","o","p","q","r","s","t","u","v","w","x","y","z">>

Digits == {"0","1","2","3","4","5","6","7","8","9"}

WhiteSpace == {" ", "\t", "\n"}

\* the character class [a-z0-9_-]
TagChars == {LowerAlpha[i] : i \in 1..26} \cup Digits \cup {"_", "-"}

\* String.prototype.toLowerCase, one character
ToLowerChar(c) ==
  IF \E i \in 1..26 : UpperAlpha[i] = c
    THEN LowerAlpha[CHOOSE i \in 1..26 : UpperAlpha[i] = c]
    ELSE c

ToLowerCase(s) == [i \in 1..Len(s) |-> ToLowerChar(s[i])]

\* String.prototype.trim
Trim(s) ==
  LET keep == {i \in 1..Len(s) : s[i] \notin WhiteSpace}
  IN IF keep = {} THEN <<>>
     ELSE SubSeq(s, CHOOSE i \in keep : \A j \in keep : i <= j,
                    CHOOSE i \in keep : \A j \in keep : i >= j)

StartsWithHash(s) == Len(s) >= 1 /\ s[1] = "#"

\* the pattern with an open-ended quantifier, {2,}
TagPatternUnbounded(t) ==
  /\ StartsWithHash(t)
  /\ Len(t) - 1 >= MinBody
  /\ \A i \in 2..Len(t) : t[i] \in TagChars

\* /^#[a-z0-9_-]{2,30}$/.test(t)
TagPattern(t) ==
  /\ StartsWithHash(t)
  /\ Len(t) - 1 >= MinBody
  /\ Len(t) - 1 <= MaxBody
  /\ \A i \in 2..Len(t) : t[i] \in TagChars

\* Array.prototype.slice(0, n)
Slice(s, n) == IF Len(s) <= n THEN s ELSE SubSeq(s, 1, n)

\* ------------------------------------------------------------------ JSON
\* A token of a completion's text: punctuation, a string literal with its
\* characters, a number, a literal name, whitespace, or a bare word (prose,
\* a code fence) that JSON does not allow.
Punct(k) == [k |-> k, s |-> <<>>]

StrTok(s) == [k |-> "str", s |-> s]

ScalarKinds == {"str", "num", "null", "true"}

\* A parsed JSON value; items are the elements of an array.
JsonValue(k, s, items) == [k |-> k, s |-> s, items |-> items]

ParseFail == [ok |-> FALSE, val |-> JsonValue("null", <<>>, <<>>), next |-> 0]

ParseOk(v, n) == [ok |-> TRUE, val |-> v, next |-> n]

KindAt(toks, i) == IF i >= 1 /\ i <= Len(toks) THEN toks[i].k ELSE "eof"

RECURSIVE ParseValue(_, _)
RECURSIVE ParseElements(_, _, _)
RECURSIVE ParseMembers(_, _)

\* value := scalar | '[' elements? ']' | '{' members? '}'
ParseValue(toks, i) ==
  LET k == KindAt(toks, i)
  IN CASE k \in ScalarKinds -> ParseOk(JsonValue(k, toks[i].s, <<>>), i + 1)
       [] k = "[" ->
            IF KindAt(toks, i + 1) = "]"
              THEN ParseOk(JsonValue("arr", <<>>, <<>>), i + 2)
              ELSE ParseElements(toks, i + 1, <<>>)
       [] k = "{" ->
            IF KindAt(toks, i + 1) = "}"
              THEN ParseOk(JsonValue("obj", <<>>, <<>>), i + 2)
              ELSE ParseMembers(toks, i + 1)
       [] OTHER -> ParseFail

\* elements := value (',' value)* ']'
ParseElements(toks, i, acc) ==
  LET r == ParseValue(toks, i)
  IN IF ~r.ok THEN ParseFail
     ELSE LET k == KindAt(toks, r.next)
              items == Append(acc, r.val)
          IN CASE k = "," -> ParseElements(toks, r.next + 1, items)
               [] k = "]" -> ParseOk(JsonValue("arr", <<>>, items), r.next + 1)
               [] OTHER -> ParseFail

\* members := string ':' value (',' string ':' value)* '}'
ParseMembers(toks, i) ==
  IF KindAt(toks, i) # "str" \/ KindAt(toks, i + 1) # ":" THEN ParseFail
  ELSE LET r == ParseValue(toks, i + 2)
       IN IF ~r.ok THEN ParseFail
          ELSE LET k == KindAt(toks, r.next)
               IN CASE k = "," -> ParseMembers(toks, r.next + 1)
                    [] k = "}" -> ParseOk(JsonValue("obj", <<>>, <<>>), r.next + 1)
                    [] OTHER -> ParseFail

\* JSON.parse: whitespace between tokens is insignificant, the whole text
\* must be one value; ok = FALSE stands for the SyntaxError it throws.
JSONParse(toks) ==
  LET t == SelectSeq(toks, LAMBDA tok : tok.k # "ws")
      r == ParseValue(t, 1)
  IN IF r.ok /\ r.next = Len(t) + 1 THEN r ELSE ParseFail

\* content?.trim() on the token text: leading and trailing whitespace go
TrimTokens(toks) ==
  LET keep == {i \in 1..Len(toks) : toks[i].k # "ws"}
  IN IF keep = {} THEN <<>>
     ELSE SubSeq(toks, CHOOSE i \in keep : \A j \in keep : i <= j,
                       CHOOSE i \in keep : \A j \in keep : i >= j)

EmptyArrayText == <<Punct("["), Punct("]")>>

\* tagResp.choices?.[0]?.message?.content?.trim() || "[]"
RawOf(content) ==
  IF ~content.present THEN EmptyArrayText
  ELSE IF TrimTokens(content.toks) = <<>> THEN EmptyArrayText
  ELSE TrimTokens(content.toks)

\* ---------------------------------------------------------- tag pipeline
\* .map((t) => t.trim().toLowerCase())
Normalize(t) == ToLowerCase(Trim(t))

\* .map((t) => (t.startsWith("#") ? t : `#${t}`))
Prefix(t) == IF StartsWithHash(t) THEN t ELSE <<"#">> \o t

\* parsed.filter(string).map(trim, lower).map(prefix).filter(re).slice(0, 10)
Sanitize(items) ==
  LET strs == SelectSeq(items, LAMBDA v : v.k = "str")
      mapped == [i \in 1..Len(strs) |-> Prefix(Normalize(strs[i].s))]
  IN Slice(SelectSeq(mapped, TagPattern), MaxTags)

\* a lenient extraction that takes a bare JSON string for a one-tag list
TagsOfLenient(content) ==
  LET parsed == JSONParse(RawOf(content))
  IN IF ~parsed.ok THEN <<>>
     ELSE IF parsed.val.k = "arr" THEN Sanitize(parsed.val.items)
     ELSE IF parsed.val.k = "str" THEN Sanitize(<<parsed.val>>)
     ELSE <<>>

\* the inner try/catch: a SyntaxError, or a value that is not an array,
\* leaves tags = []
TagsOf(content) ==
  LET parsed == JSONParse(RawOf(content))
  IN IF ~parsed.ok THEN <<>>
     ELSE IF parsed.val.k = "arr" THEN Sanitize(parsed.val.items)
     ELSE <<>>

\* --------------------------------------------------------------- inputs
Rep(c, n) == [i \in 1..n |-> c]

Happy == <<"h","a","p","p","y">>

\* array elements a provider can propose, each as its token text
Candidates ==
  << <<StrTok(Happy)>>,
     <<StrTok(<<"#">> \o Happy)>>,
     <<StrTok(<<" ","H","A","P","P","Y"," ">>)>>,
     <<StrTok(<<"#","f","e","e","l","i","n","g"," ","g","o","o","d">>)>>,
     <<Punct("num")>>,
     <<StrTok(<<"o","k">>)>>,
     <<StrTok(<<"#","R","u","n","_","2","-","g","o">>)>>,
     <<StrTok(<<"a">>)>>,
     <<StrTok(<<"#">> \o Rep("x", MaxBody))>>,
     <<StrTok(Rep("x", MaxBody + 1))>>,
     <<StrTok(<<"#","#","t","a","g">>)>>,
     <<Punct("["), StrTok(Happy), Punct("]")>> >>

\* the i-th of a run of distinct well-formed hashtags
NumberedTag(i) == <<StrTok(<<"#", "t", LowerAlpha[((i - 1) % 26) + 1]>>)>>

RECURSIVE JoinItems(_)
JoinItems(its) ==
  IF its = <<>> THEN <<>>
  ELSE IF Len(its) = 1 THEN its[1]
  ELSE its[1] \o <<Punct(",")>> \o JoinItems(Tail(its))

ArrayText(its) == <<Punct("[")>> \o JoinItems(its) \o <<Punct("]")>>

ShortArrays ==
  {ArrayText([i \in 1..n |-> Candidates[f[i]]]) :
     f \in [1..MaxItems -> 1..Len(Candidates)], n \in 0..MaxItems}

LongArrays ==
  {ArrayText([i \in 1..n |-> NumberedTag(i)]) : n \in 1..MaxLong}
  \cup {ArrayText(<<Candidates[4]>> \o [i \in 1..n |-> NumberedTag(i)]) : n \in 1..MaxLong}
  \cup {ArrayText([i \in 1..n |-> Candidates[((i + off) % Len(Candidates)) + 1]]) :
          n \in 1..MaxLong, off \in {0, 5}}

\* the array ["happy", "#happy", " HAPPY "]
ExampleArrays == {ArrayText(<<Candidates[1], Candidates[2], Candidates[3]>>)}

Word == Punct("word")

Ws == Punct("ws")

\* completions that are not a bare JSON array
OtherTexts ==
  { <<>>,
    <<Ws>>,
    <<Word, Ws>> \o ArrayText(<<Candidates[1]>>),
    <<Word, Ws>> \o ArrayText(<<Candidates[2]>>) \o <<Ws, Word>>,
    <<Punct("["), StrTok(Happy), Punct(","), Punct("]")>>,
    <<Punct("["), StrTok(Happy)>>,
    EmptyArrayText \o EmptyArrayText,
    <<Punct("{"), StrTok(<<"t","a","g","s">>), Punct(":")>>
       \o ArrayText(<<Candidates[2]>>) \o <<Punct("}")>>,
    <<StrTok(<<"#">> \o Happy)>>,
    <<Punct("num")>>,
    <<Punct("null")>>,
    <<Ws, Punct("["), Ws, StrTok(Happy), Punct(","), Ws,
      StrTok(<<"#","c","a","l","m">>), Ws, Punct("]"), Ws>> }

NoContent == [present |-> FALSE, toks |-> <<>>]

\* what choices?.[0]?.message?.content can be
Contents ==
  {NoContent} \cup
  {[present |-> TRUE, toks |-> t] : t \in ShortArrays \cup LongArrays \cup ExampleArrays \cup OtherTexts}

NoText == [present |-> FALSE, s |-> <<>>]

\* what the transcription result's text can be
Transcripts ==
  {NoText} \cup
  {[present |-> TRUE, s |-> t] :
     t \in { <<>>, <<" ", "\n">>, <<"h","i">>, <<" ","h","i"," ">>, <<"I"," ","r","a","n">> }}

Methods == {"OPTIONS", "POST", "GET", "DELETE"}

\* process.env.OPENAI_API_KEY
KeyValues == {"absent", "empty", "present"}

NoFile == ""

\* files.audio as formidable hands it over
Uploads ==
  { [shape |-> "undefined", files |-> <<>>],
    [shape |-> "single", files |-> <<"/tmp/a.m4a">>],
    [shape |-> "array", files |-> <<>>],
    [shape |-> "array", files |-> <<"/tmp/a.m4a">>],
    [shape |-> "array", files |-> <<"/tmp/b.m4a", "/tmp/a.m4a">>] }

NoMessage == ""

\* err.message of what form.parse can pass to its callback
ParseErrors == {"maxFileSize exceeded", NoMessage}

TranscribeErrors == {"Connection error.", NoMessage}

ChatErrors == {"429 Rate limit reached", NoMessage}

\* ---------------------------------------------------------------- state
VARIABLES
  pc,          \* where the handler is: idle, entry, parsing, transcribing, tagging, done
  reqNo,       \* number of requests the function instance has been invoked for
  method,      \* req.method
  apiKey,      \* process.env.OPENAI_API_KEY as this request finds it
  headers,     \* headers set on res
  resp,        \* responses sent on res, in order
  calls,       \* external calls issued by this request, in order
  upload,      \* files.audio handed to the form.parse callback
  audio,       \* filepath streamed to the transcription call
  transcript,  \* text of the transcription result
  text,        \* const text
  content,     \* content of the first choice of the chat completion
  tags,        \* let tags
  err          \* what the outer catch caught

vars ==
  <<pc, reqNo, method, apiKey, headers, resp, calls, upload, audio,
    transcript, text, content, tags, err>>

NoUpload == [shape |-> "none", files |-> <<>>]

NoError == [thrown |-> FALSE, at |-> "", message |-> NoMessage]

Thrown(at, m) == [thrown |-> TRUE, at |-> at, message |-> m]

\* setCors(res)
SetCors(h) ==
  {x \in h : x[1] \notin {"Access-Control-Allow-Origin",
                          "Access-Control-Allow-Methods",
                          "Access-Control-Allow-Headers"}}
  \cup { <<"Access-Control-Allow-Origin", "*">>,
         <<"Access-Control-Allow-Methods", "POST, OPTIONS">>,
         <<"Access-Control-Allow-Headers", "Content-Type">> }

NoBody == [kind |-> "none", message |-> "", text |-> <<>>, tags |-> <<>>]

MessageBody(m) == [kind |-> "json", message |-> m, text |-> <<>>, tags |-> <<>>]

ResultBody(t, g) == [kind |-> "json", message |-> "", text |-> t, tags |-> g]

\* res.status(s).end() / res.status(s).json(b) with the headers set so far
Reply(s, b, h) == [status |-> s, headers |-> h, body |-> b]

\* the checks with the credential tested first
RouteKeyFirst(m, key) ==
  IF key # "present" THEN "misconfigured"
  ELSE IF m = "OPTIONS" THEN "options"
  ELSE IF m # "POST" THEN "notAllowed"
  ELSE "proceed"

\* the checks without the credential test
RouteNoKeyCheck(m, key) ==
  IF m = "OPTIONS" THEN "options"
  ELSE IF m # "POST" THEN "notAllowed"
  ELSE "proceed"

\* the method and credential checks at the head of the handler
Route(m, key) ==
  IF m = "OPTIONS" THEN "options"
  ELSE IF m # "POST" THEN "notAllowed"
  ELSE IF key # "present" THEN "misconfigured"
  ELSE "proceed"

MissingAudioMessage == "Missing 'audio' file field"

\* a normalization that takes the array's last element
PickAudioLast(f) ==
  IF f.shape = "array" THEN (IF Len(f.files) >= 1 THEN f.files[Len(f.files)] ELSE NoFile)
  ELSE IF f.shape = "single" THEN f.files[1]
  ELSE NoFile

\* Array.isArray(f) ? f[0] : f  (NoFile when the result is undefined)
PickAudio(f) ==
  IF f.shape = "array" THEN (IF Len(f.files) >= 1 THEN f.files[1] ELSE NoFile)
  ELSE IF f.shape = "single" THEN f.files[1]
  ELSE NoFile

\* (tr?.text || "").trim()
TextOf(tr) == IF tr.present THEN Trim(tr.s) ELSE <<>>

\* err?.message || "transcription failed"
ErrorMessage(m) == IF m = NoMessage THEN "transcription failed" ELSE m

Init ==
  /\ pc = "idle"
  /\ reqNo = 0
  /\ method = ""
  /\ apiKey = "absent"
  /\ headers = {}
  /\ resp = <<>>
  /\ calls = <<>>
  /\ upload = NoUpload
  /\ audio = NoFile
  /\ transcript = NoText
  /\ text = <<>>
  /\ content = NoContent
  /\ tags = <<>>
  /\ err = NoError

\* The platform invokes the handler with a fresh req/res pair.
Invoke(m, key) ==
  /\ pc \in {"idle", "done"}
  /\ reqNo < MaxRequests
  /\ pc' = "entry"
  /\ reqNo' = reqNo + 1
  /\ method' = m
  /\ apiKey' = key
  /\ headers' = {}
  /\ resp' = <<>>
  /\ calls' = <<>>
  /\ upload' = NoUpload
  /\ audio' = NoFile
  /\ transcript' = NoText
  /\ text' = <<>>
  /\ content' = NoContent
  /\ tags' = <<>>
  /\ err' = NoError

\* the outer catch: res.status(500).json({message: err?.message || ...})
Catch(at, m) ==
  /\ err' = Thrown(at, m)
  /\ resp' = Append(resp, Reply(500, MessageBody(ErrorMessage(m)), headers))
  /\ pc' = "done"

\* handler, from its first line to the await of parseAudioFile
HandlerEntry ==
  /\ pc = "entry"
  /\ headers' = SetCors(headers)
  /\ LET r == Route(method, apiKey)
     IN /\ resp' =
             CASE r = "options" -> Append(resp, Reply(204, NoBody, headers'))
               [] r = "notAllowed" ->
                    Append(resp, Reply(405, MessageBody("Method not allowed"), headers'))
               [] r = "misconfigured" ->
                    Append(resp, Reply(500,
                      MessageBody("Server misconfigured: OPENAI_API_KEY not set"), headers'))
               [] OTHER -> resp
        /\ calls' = IF r = "proceed" THEN Append(calls, "parse") ELSE calls
        /\ pc' = IF r = "proceed" THEN "parsing" ELSE "done"
  /\ UNCHANGED <<reqNo, method, apiKey, upload, audio, transcript, text,
                 content, tags, err>>

\* form.parse calls back with err: parseAudioFile rejects, the catch replies
ParseFails(m) ==
  /\ pc = "parsing"
  /\ Catch("parse", m)
  /\ UNCHANGED <<reqNo, method, apiKey, headers, calls, upload, audio,
                 transcript, text, content, tags>>

\* form.parse calls back with the files: either no audio file (reject, catch)
\* or the file is streamed to the transcription call
ParseReturns(f) ==
  /\ pc = "parsing"
  /\ upload' = f
  /\ IF PickAudio(f) = NoFile
       THEN /\ Catch("parse", MissingAudioMessage)
            /\ UNCHANGED <<audio, calls>>
       ELSE /\ audio' = PickAudio(f)
            /\ calls' = Append(calls, "transcribe")
            /\ pc' = "transcribing"
            /\ UNCHANGED <<resp, err>>
  /\ UNCHANGED <<reqNo, method, apiKey, headers, transcript, text, content, tags>>

\* a handler that calls the transcription again when it rejects
TranscribeFailsRetry(m) ==
  /\ pc = "transcribing"
  /\ calls' = Append(calls, "transcribe")
  /\ UNCHANGED <<pc, reqNo, method, apiKey, headers, resp, upload, audio,
                 transcript, text, content, tags, err>>

\* openai.audio.transcriptions.create rejects
TranscribeFails(m) ==
  /\ pc = "transcribing"
  /\ Catch("transcribe", m)
  /\ UNCHANGED <<reqNo, method, apiKey, headers, calls, upload, audio,
                 transcript, text, content, tags>>

\* a handler that answers at once, without tags, when the text is empty
TranscribeReturnsShortCircuit(tr) ==
  /\ pc = "transcribing"
  /\ transcript' = tr
  /\ text' = TextOf(tr)
  /\ IF text' = <<>>
       THEN /\ resp' = Append(resp, Reply(200, ResultBody(text', <<>>), headers))
            /\ pc' = "done"
            /\ UNCHANGED calls
       ELSE /\ calls' = Append(calls, "chat")
            /\ pc' = "tagging"
            /\ UNCHANGED resp
  /\ UNCHANGED <<reqNo, method, apiKey, headers, upload, audio, content, tags, err>>

\* the transcription resolves: text is computed, the chat completion is requested
TranscribeReturns(tr) ==
  /\ pc = "transcribing"
  /\ transcript' = tr
  /\ text' = TextOf(tr)
  /\ calls' = Append(calls, "chat")
  /\ pc' = "tagging"
  /\ UNCHANGED <<reqNo, method, apiKey, headers, resp, upload, audio,
                 content, tags, err>>

\* a handler whose catch logs the error and sends nothing
ChatFailsSilent(m) ==
  /\ pc = "tagging"
  /\ err' = Thrown("chat", m)
  /\ pc' = "done"
  /\ UNCHANGED <<reqNo, method, apiKey, headers, resp, calls, upload, audio,
                 transcript, text, content, tags>>

\* openai.chat.completions.create rejects: the await is outside the inner
\* try, so the outer catch replies
ChatFails(m) ==
  /\ pc = "tagging"
  /\ Catch("chat", m)
  /\ UNCHANGED <<reqNo, method, apiKey, headers, calls, upload, audio,
                 transcript, text, content, tags>>

\* the completion resolves: tags are extracted and the result is sent
ChatReturns(c) ==
  /\ pc = "tagging"
  /\ content' = c
  /\ tags' = TagsOf(c)
  /\ resp' = Append(resp, Reply(200, ResultBody(text, tags'), headers))
  /\ pc' = "done"
  /\ UNCHANGED <<reqNo, method, apiKey, headers, calls, upload, audio,
                 transcript, text, err>>

Next ==
  \/ \E m \in Methods, key \in KeyValues : Invoke(m, key)
  \/ HandlerEntry
  \/ \E m \in ParseErrors : ParseFails(m)
  \/ \E f \in Uploads : ParseReturns(f)
  \/ \E m \in TranscribeErrors : TranscribeFails(m)
  \/ \E tr \in Transcripts : TranscribeReturns(tr)
  \/ \E m \in ChatErrors : ChatFails(m)
  \/ \E c \in Contents : ChatReturns(c)

Spec == Init /\ [][Next]_vars

\* every external call eventually returns or throws, and the runtime runs
\* the handler's continuation
Responds ==
  \/ HandlerEntry
  \/ \E m \in ParseErrors : ParseFails(m)
  \/ \E f \in Uploads : ParseReturns(f)
  \/ \E m \in TranscribeErrors : TranscribeFails(m)
  \/ \E tr \in Transcripts : TranscribeReturns(tr)
  \/ \E m \in ChatErrors : ChatFails(m)
  \/ \E c \in Contents : ChatReturns(c)

FairSpec == Spec /\ WF_vars(Responds)

\* ------------------------------------------------------------ properties
Done == pc = "done"

Sent == IF Len(resp) >= 1 THEN resp[1] ELSE Reply(0, NoBody, {})

AllCalls == <<"parse", "transcribe", "chat">>

\* the chat completion resolved in this request
ChatResolved == Done /\ calls = AllCalls /\ ~err.thrown

ParsedContent == JSONParse(RawOf(content))

IsArrayContent == ParsedContent.ok /\ ParsedContent.val.k = "arr"

NoRepeats(s) == \A i, j \in 1..Len(s) : s[i] = s[j] => i = j

HashHappy == <<"#","h","a","p","p","y">>

HappyThrice ==
  [present |-> TRUE,
   toks |-> ArrayText(<<Candidates[1], Candidates[2], Candidates[3]>>)]

\* C1: whenever the completion parses as a JSON array, the tags of the 200
\* response contain no repeated tag, and the completion
\* ["happy", "#happy", " HAPPY "] yields exactly ["#happy"].
C1_TagsDistinct ==
  (ChatResolved /\ IsArrayContent) =>
     /\ Sent.status = 200
     /\ NoRepeats(Sent.body.tags)
     /\ (content = HappyThrice => Sent.body.tags = <<HashHappy>>)

IsLowerOrDigit(c) == (\E i \in 1..26 : LowerAlpha[i] = c) \/ c \in Digits

WellFormedTag(t) ==
  /\ Len(t) >= 3
  /\ Len(t) <= 31
  /\ t[1] = "#"
  /\ \A i \in 2..Len(t) : IsLowerOrDigit(t[i]) \/ t[i] = "_" \/ t[i] = "-"

FeelingGood == <<"#","f","e","e","l","i","n","g"," ","g","o","o","d">>

HasItem(v, str) == \E i \in 1..Len(v.items) : v.items[i].k = "str" /\ v.items[i].s = str

\* C2: in every 200 response each tag matches ^#[a-z0-9_-]{2,30}$ and there
\* are at most 10 tags; a completion that resolved always ends in a 200, the
\* candidates that fail the pattern being dropped.
C2_TagsWellFormed ==
  /\ \A i \in 1..Len(resp) :
       resp[i].status = 200 =>
         /\ Len(resp[i].body.tags) <= 10
         /\ \A j \in 1..Len(resp[i].body.tags) : WellFormedTag(resp[i].body.tags[j])
  /\ ChatResolved => Sent.status = 200

C2_Witness ==
  /\ ChatResolved
  /\ IsArrayContent
  /\ HasItem(ParsedContent.val, FeelingGood)
  /\ Len(ParsedContent.val.items) > 11
  /\ Sent.status = 200
  /\ Len(Sent.body.tags) = 10

\* the completion's content, as the provider sent it, is not a JSON array
ContentNotArray ==
  \/ ~content.present
  \/ ~JSONParse(content.toks).ok
  \/ JSONParse(content.toks).val.k # "arr"

\* C3: a completion whose content is not valid JSON, or is valid JSON but
\* not an array, ends the request with one 200 response whose body is
\* {text, tags: []} with the handler's transcript text.
C3_BadCompletionGivesEmptyTags ==
  (ChatResolved /\ ContentNotArray) =>
     resp = <<Reply(200, ResultBody(text, <<>>), Sent.headers)>>

C3_Witness ==
  /\ ChatResolved
  /\ content.present
  /\ content.toks # <<>>
  /\ ~JSONParse(content.toks).ok
  /\ text # <<>>
  /\ Sent.status = 200
  /\ Sent.body.tags = <<>>

\* C4: a failure inside tag extraction, the text-generation call throwing
\* included, still ends with 200 and {text, tags: []}; a 500 comes only from
\* failures up to and including the transcription call.
C4_TagFailuresAbsorbed ==
  (Done /\ calls = AllCalls) =>
     /\ Sent.status = 200
     /\ (err.thrown => Sent.body = ResultBody(text, <<>>))

CorsHeaders ==
  { <<"Access-Control-Allow-Origin", "*">>,
    <<"Access-Control-Allow-Methods", "POST, OPTIONS">>,
    <<"Access-Control-Allow-Headers", "Content-Type">> }

\* C5: OPTIONS ends with 204 and no body, any method other than POST and
\* OPTIONS with 405 and "Method not allowed"; the three CORS headers are set
\* and neither the upload parser nor a provider is called, whatever the
\* credential.
C5_MethodDispatch ==
  /\ method # "POST" => calls = <<>>
  /\ (Done /\ method = "OPTIONS") => resp = <<Reply(204, NoBody, CorsHeaders)>>
  /\ (Done /\ method \notin {"POST", "OPTIONS"}) =>
        resp = <<Reply(405, MessageBody("Method not allowed"), CorsHeaders)>>

C5_Witness ==
  /\ Done
  /\ method = "OPTIONS"
  /\ apiKey = "absent"
  /\ Sent.status = 204
  /\ Sent.body.kind = "none"

\* C6: a POST handled while the credential is absent ends with 500 and the
\* fixed message, before the upload is parsed and before any provider call;
\* this holds of every request of the instance.
C6_MissingCredential ==
  (method = "POST" /\ apiKey = "absent") =>
     /\ calls = <<>>
     /\ Done => resp = <<Reply(500,
                  MessageBody("Server misconfigured: OPENAI_API_KEY not set"),
                  CorsHeaders)>>

C6_Witness ==
  /\ Done
  /\ reqNo = 2
  /\ method = "POST"
  /\ apiKey = "absent"
  /\ Sent.status = 500

NoAudioIn(f) == f.shape = "undefined" \/ (f.shape = "array" /\ f.files = <<>>)

\* C7: an upload without a file under 'audio' (absent, or an empty array)
\* ends with 500 and the message naming the field, with no provider call;
\* otherwise exactly one file is used, the single file or the array's first.
C7_MissingAudio ==
  /\ (upload # NoUpload /\ NoAudioIn(upload)) =>
        /\ Done
        /\ calls = <<"parse">>
        /\ Sent.status = 500
        /\ Sent.body.message = "Missing 'audio' file field"
  /\ (upload # NoUpload /\ ~NoAudioIn(upload)) =>
        /\ audio = Head(upload.files)
        /\ Len(SelectSeq(calls, LAMBDA c : c = "transcribe")) = 1

C7_Witness ==
  /\ Done
  /\ upload.shape = "array"
  /\ upload.files = <<>>
  /\ Sent.status = 500

BlankTranscript ==
  ~transcript.present \/ \A i \in 1..Len(transcript.s) : transcript.s[i] \in {" ", "\t", "\n"}

\* the transcription call of this request resolved
TranscriptionReturned ==
  Len(calls) >= 2 /\ pc \in {"tagging", "done"} /\ err.at # "transcribe"

\* C8: with an empty or whitespace-only transcript the handler still issues
\* exactly one text-generation call and returns 200 with text "" and the
\* tags extracted from the completion.
C8_EmptyTranscriptStillTags ==
  /\ (TranscriptionReturned /\ BlankTranscript) =>
        Len(SelectSeq(calls, LAMBDA c : c = "chat")) = 1
  /\ (ChatResolved /\ BlankTranscript) =>
        resp = <<Reply(200, ResultBody(<<>>, tags), Sent.headers)>>

C8_Witness ==
  /\ ChatResolved
  /\ transcript.present
  /\ transcript.s # <<>>
  /\ BlankTranscript
  /\ Sent.status = 200
  /\ Sent.body.text = <<>>
  /\ Len(Sent.body.tags) >= 1

IsPrefix(s, t) == Len(s) <= Len(t) /\ s = SubSeq(t, 1, Len(s))

\* C9: the provider calls are sequential and never retried: the calls of a
\* request are a prefix of parse, transcribe, chat; a failure of the upload
\* parsing or of the transcription call ends the request with 500 and the
\* error's message (the fallback text when the error has none), and the
\* text-generation call is not issued.
C9_SequentialNoRetry ==
  /\ IsPrefix(calls, AllCalls)
  /\ (err.thrown /\ err.at \in {"parse", "transcribe"}) =>
        /\ "chat" \notin {calls[i] : i \in 1..Len(calls)}
        /\ Len(resp) = 1
        /\ Sent.status = 500
        /\ Sent.body.message =
             (IF err.message = "" THEN "transcription failed" ELSE err.message)
  /\ (Len(calls) = 3) => (pc \in {"tagging", "done"} /\ err.at \notin {"parse", "transcribe"})

C9_Witness ==
  /\ Done
  /\ err.thrown
  /\ err.at = "transcribe"
  /\ calls = <<"parse", "transcribe">>
  /\ Sent.status = 500
  /\ Sent.body.message = "Connection error."

C10_OneResponse ==
  /\ Len(resp) <= 1
  /\ (Len(resp) = 1) <=> Done
  /\ Done => Sent.status \in {204, 405, 500, 200}
  /\ (Done /\ Sent.status = 200) => (calls = AllCalls /\ ~err.thrown)
  /\ \A i \in 1..Len(resp) : CorsHeaders \subseteq resp[i].headers

\* C10: when every external call eventually returns or throws, every request
\* reaches exactly one terminal response, with status 204, 405, 500 or 200;
\* a 200 is sent only if parsing and both provider calls completed without
\* throwing, and the CORS headers are on every response.
C10_EveryRequestAnswered ==
  /\ []C10_OneResponse
  /\ \A n \in 1..MaxRequests : (reqNo = n /\ pc = "entry") ~> (reqNo = n /\ Done)

C10_Witness ==
  /\ Done
  /\ reqNo = 2
  /\ Sent.status = 200
  /\ Sent.headers = CorsHeaders

====
